---- MODULE Spec2Model ----
(***************************************************************************)
(* State-machine model of the ordered aggregation engine and of the        *)
(* nested bar-group layout engine of the charts crate:                     *)
(*   src/src/components/ordered_set.rs                                     *)
(*   src/src/components/categorised_bars/segmented_value.rs                *)
(*   src/src/components/categorised_bars/categorised_value.rs              *)
(*   src/src/components/categorised_bars/categorised_values.rs             *)
(*   src/src/components/categorised_bars/bar_group.rs                      *)
(* Three specifications share the module: SpecOrderedSet drives one        *)
(* OrderedSet, SpecCategorised drives one CategorisedValues builder, and   *)
(* SpecBarGroup builds BarGroup trees and queries their layout.            *)
(***************************************************************************)
EXTENDS Integers, Sequences, FiniteSets, TLC

VARIABLES
    \* ---- OrderedSet under test (ordered_set.rs) ----
    set,              \* the OrderedSet: [map, list]
    returned,         \* what the last OrderedSet call was and returned
    before,           \* the OrderedSet as it was before the last call
    history,          \* keys passed to define_if_not_exist since the last clear
    \* ---- CategorisedValues builder (categorised_values.rs) ----
    category_keys,    \* OrderedSet<CAT>
    segment_keys,     \* OrderedSet<SEG>
    values,           \* BTreeMap<usize, SegmentedValue<VAL>>
    data,             \* every normalised item add_data consumed so far, in order
    placed,           \* for each item of data: the indices add_data resolved
    predefined_categories,  \* the last with_categories: whether it came before
                            \* any data, and if so its argument
    predefined_segments,    \* the same for the last with_segments
    orderings,              \* with_categories and with_segments calls so far
    \* ---- BarGroup builder and layout queries (bar_group.rs) ----
    group,            \* the BarGroup being configured, then the tree queried
    pool,             \* finished groups not yet passed to define_groups
    profile,          \* the build: "debug" (overflow checks), "release"
                      \* (wrapping), or "any" while no overflow has told
    outcome,          \* the last call on the tree and what it returned
    iterator,         \* the live BarPositionIterator, the dimension it was
                      \* made for and the items it has yielded
    \* ---- DiscreteScale and its LinearScaleIter (scales/) ----
    scale,            \* the DiscreteScale, once constructed
    scale_iter,       \* the LinearScaleIter returned by DiscreteScale::iter
    returns,          \* what each call of next on it returned, in order
    build,            \* the build, as profile, for the i64 arithmetic
    aborted,          \* a call on the scale or its iterator panicked
    \* ---- a SegmentedValue on its own (segmented_value.rs) ----
    segmented,        \* the SegmentedValue
    segmented_before, \* the SegmentedValue before the last add
    added             \* the (segment_index, value) pairs passed to add

osVars == <<set, returned, before, history>>
cvVars == <<category_keys, segment_keys, values, data, placed,
            predefined_categories, predefined_segments, orderings>>
bgVars == <<group, pool, profile, outcome, iterator>>
lsVars == <<scale, scale_iter, returns, build, aborted>>
svVars == <<segmented, segmented_before, added>>
vars == <<osVars, cvVars, bgVars, lsVars, svVars>>

----------------------------------------------------------------------------
(* Bounds of the exploration *)

MaxDefines == 4       \* define_if_not_exist calls between two clears
MaxItems == 2         \* data items consumed by add_data over a whole run
MaxOrderings == 2     \* with_categories / with_segments calls over a whole run
MaxGroups == 3        \* BarGroup nodes alive in the builder
\* calls of next on one LinearScaleIter
MaxCalls == 104
\* calls of add on one SegmentedValue
MaxAdds == 4

(* Input alphabets *)
Keys == {"A", "B", "C"}          \* OrderedSet<&str> keys
CatKeys == {"A", "B"}            \* CAT
SegKeys == {0, 1}                \* SEG (usize, 0 is the default segment)
Vals == {1, 2}                   \* VAL

\* with_margins arguments (before, between, after)
MarginChoices == {<<0, 0, 0>>, <<1, 2, 3>>}
\* a margin_before of usize::MAX - 1, explored on the root of a tree only
WideMargins == {<<-2, 1, 0>>}
\* the dimensions asked for: none, less than the margins, a few pixels per
\* bar, the first integer an f32 cannot hold, and usize::MAX
Dimensions == {0, 9, 20, 31, 16777217, -1}
BarWidths == {0, 1, 4}
\* how many labels a define_labels call passes
LabelCounts == {0, 1, 2}
\* the key of the first label, as in unit_tests.rs
FirstKey == 1967

----------------------------------------------------------------------------
(* Generic helpers *)

Range(s) == {s[i] : i \in 1..Len(s)}

\* the short sequences over S that are passed as arguments: none, one or
\* two elements, a repeated element included
ShortSeqs(S) ==
    {<<>>} \cup {<<a>> : a \in S} \cup {<<a, b>> : a \in S, b \in S}

\* usize is held as the signed integer with the same bit pattern: a negative
\* number n stands for the unsigned value 2^w + n, so -1 is usize::MAX.
USIZE_MAX == -1

\* unsigned a < b
ULt(a, b) == IF (a < 0) = (b < 0) THEN a < b ELSE b < 0

None == [some |-> FALSE]
Some(v) == [some |-> TRUE, value |-> v]

----------------------------------------------------------------------------
(* usize arithmetic.  usize is modelled at the 32-bit target width (wasm32, *)
(* i686), the widest word the model checker computes exactly; a value is   *)
(* the signed integer with the same bit pattern.  An arithmetic overflow   *)
(* panics when the crate is built with overflow checks (the dev and test   *)
(* profiles) and wraps otherwise (the release profile).  A checked value   *)
(* [v, o] carries the wrapped result v and whether an operation on the way *)
(* to it overflowed.                                                       *)

I32_MAX == 2147483647
I32_MIN == -I32_MAX - 1

\* wrapping addition, and whether the unsigned sum carries out of the word
WAdd(a, b) ==
    IF a >= 0 /\ b >= 0
    THEN (IF a <= I32_MAX - b THEN a + b ELSE (a - I32_MAX - 1) + (b - I32_MAX - 1))
    ELSE IF a < 0 /\ b < 0
    THEN (IF a >= I32_MIN - b THEN a + b ELSE (a + I32_MAX + 1) + (b + I32_MAX + 1))
    ELSE a + b

AddOverflows(a, b) ==
    IF a >= 0 /\ b >= 0 THEN FALSE
    ELSE IF a < 0 /\ b < 0 THEN TRUE
    ELSE a + b >= 0

\* wrapping subtraction; it borrows when a < b as unsigned numbers
WSub(a, b) == IF b = I32_MIN THEN WAdd(a, I32_MIN) ELSE WAdd(a, -b)

SubOverflows(a, b) == ULt(a, b)

\* wrapping multiplication by doubling
RECURSIVE WMulBy(_, _)
WMulBy(a, n) ==
    IF n = 0 THEN 0
    ELSE LET half == WMulBy(a, n \div 2)
             twice == WAdd(half, half)
         IN  IF n % 2 = 1 THEN WAdd(twice, a) ELSE twice

WMul(a, b) ==
    IF b >= 0 THEN WMulBy(a, b)
    ELSE IF a >= 0 THEN WMulBy(b, a)
    ELSE IF b = I32_MIN THEN (IF a % 2 = 0 THEN 0 ELSE I32_MIN)
    ELSE IF a = I32_MIN THEN (IF b % 2 = 0 THEN 0 ELSE I32_MIN)
    ELSE WMulBy(-a, -b)

\* the unsigned product does not fit the word
MulOverflows(a, b) ==
    IF a = 0 \/ b = 0 \/ a = 1 \/ b = 1 THEN FALSE
    ELSE IF a < 0 \/ b < 0 THEN TRUE
    ELSE a > 2 * (I32_MAX \div b) + ((2 * (I32_MAX % b) + 1) \div b)

Checked(n) == [v |-> n, o |-> FALSE]
CAdd(x, y) == [v |-> WAdd(x.v, y.v), o |-> x.o \/ y.o \/ AddOverflows(x.v, y.v)]
CSub(x, y) == [v |-> WSub(x.v, y.v), o |-> x.o \/ y.o \/ SubOverflows(x.v, y.v)]
CMul(x, y) == [v |-> WMul(x.v, y.v), o |-> x.o \/ y.o \/ MulOverflows(x.v, y.v)]
\* usize::max
CMax(x, y) == [v |-> IF ULt(x.v, y.v) THEN y.v ELSE x.v, o |-> x.o \/ y.o]

----------------------------------------------------------------------------
(* f32 arithmetic of calculate_bar_width.  An f32 that is the image of a   *)
(* usize is a non-negative integer m * 2^e with m <= 2^24.                 *)

F32_MANTISSA == 16777216     \* 2^24: integers up to here are exact in f32

RECURSIVE Pow2(_)
Pow2(n) == IF n = 0 THEN 1 ELSE 2 * Pow2(n - 1)

RECURSIVE BitLen(_)
BitLen(n) == IF n = 0 THEN 0 ELSE 1 + BitLen(n \div 2)

\* num / den rounded to the nearest integer, ties to even (den > 0)
RoundHalfEven(num, den) ==
    LET q == num \div den
        r == num % den
    IN  IF 2 * r < den THEN q
        ELSE IF 2 * r > den THEN q + 1
        ELSE IF q % 2 = 0 THEN q ELSE q + 1

\* "x as f32" for a usize x: round to 24 significant bits, ties to even
AsF32(x) ==
    IF x < 0
    THEN [m |-> F32_MANTISSA + RoundHalfEven(x, 256), e |-> 8]
    ELSE IF BitLen(x) <= 24 THEN [m |-> x, e |-> 0]
    ELSE LET e == BitLen(x) - 24
         IN  [m |-> RoundHalfEven(x, Pow2(e)), e |-> e]

\* the quotient a / b of two positive integers as an f32: the first 24
\* significant bits by long division, then rounding on the remainder.  The
\* result is q * 2^(-s).
RECURSIVE F32Quotient(_, _, _, _)
F32Quotient(q, r, b, s) ==
    IF BitLen(q) >= 24 \/ (q = 0 /\ r = 0) \/ s >= 64
    THEN [q |-> IF 2 * r > b \/ (2 * r = b /\ q % 2 = 1) THEN q + 1 ELSE q,
          s |-> s]
    ELSE F32Quotient(2 * q + (IF 2 * r >= b THEN 1 ELSE 0),
                     (2 * r) % b, b, s + 1)

\* "f32::floor(x / y) as usize" for x = m * 2^e and y = n as f32 (n small
\* enough to be exact): the cast saturates, maps NaN to 0 and infinity to
\* usize::MAX
F32DivFloorAsUsize(x, n) ==
    IF n = 0 THEN (IF x.m = 0 THEN 0 ELSE USIZE_MAX)
    ELSE LET f == F32Quotient(x.m \div n, x.m % n, n, 0)
             d == x.e - f.s
         IN  IF d >= 0
             THEN (IF BitLen(f.q) + d > 32 THEN USIZE_MAX
                   ELSE IF BitLen(f.q) + d = 32
                   THEN (f.q - Pow2(32 - d)) * Pow2(d)
                   ELSE f.q * Pow2(d))
             ELSE (IF -d >= 26 THEN 0 ELSE f.q \div Pow2(-d))

----------------------------------------------------------------------------
(* OrderedSet<O>: ordered_set.rs *)

EmptyMap == [k \in {} |-> 0]

\* HashMap::insert
MapInsert(m, k, v) == [x \in DOMAIN m \cup {k} |-> IF x = k THEN v ELSE m[x]]

\* OrderedSet::new / Default
OrderedSetNew == [map |-> EmptyMap, list |-> <<>>]

\* a clear that forgets to empty the hash index
clear_list_only(os) == [map |-> os.map, list |-> <<>>]

\* OrderedSet::clear
clear(os) == [map |-> EmptyMap, list |-> <<>>]

\* OrderedSet::len
len(os) == Len(os.list)

\* a define_if_not_exist that appends without consulting the hash index
define_always_push(os, key) ==
    LET index == Len(os.list)
    IN  [set |-> [map |-> MapInsert(os.map, key, index),
                  list |-> Append(os.list, key)],
         index |-> index]

\* OrderedSet::define_if_not_exist: the set afterwards and the returned index
define_if_not_exist(os, key) ==
    IF key \in DOMAIN os.map
    THEN [set |-> os, index |-> os.map[key]]
    ELSE LET index == Len(os.list)
         IN  [set |-> [map |-> MapInsert(os.map, key, index),
                       list |-> Append(os.list, key)],
              index |-> index]

\* OrderedSet::index_of
index_of(os, key) ==
    IF key \in DOMAIN os.map THEN Some(os.map[key]) ELSE None

\* OrderedSet::key; indices are 0-based, the list is 1-based here
key(os, index) ==
    IF ULt(index, Len(os.list)) THEN Some(os.list[index + 1]) ELSE None

\* OrderedSet::iter
iter(os) == os.list

\* impl Index<usize> for OrderedSet: &self.list[index], which panics when
\* the index is out of bounds
OrderedSetIndex(os, index) ==
    IF ULt(index, Len(os.list))
    THEN [panic |-> FALSE, value |-> os.list[index + 1]]
    ELSE [panic |-> TRUE]

----------------------------------------------------------------------------
(* SegmentedValue<VAL>: segmented_value.rs.  VAL is an integer type; the   *)
(* sums explored stay far below its range.                                 *)

SegmentedValueDefault == [segments |-> EmptyMap, magnitude |-> 0]

\* an add that keeps, as magnitude, the size of the segment it added to
add_magnitude_of_segment(sv, segment_index, value) ==
    LET bucket == (IF segment_index \in DOMAIN sv.segments
                   THEN sv.segments[segment_index] ELSE 0) + value
    IN  [magnitude |-> bucket,
         segments |-> MapInsert(sv.segments, segment_index, bucket)]

\* an add that stores the value in the bucket instead of accumulating it
add_overwriting(sv, segment_index, value) ==
    [segments |-> MapInsert(sv.segments, segment_index, value),
     magnitude |-> sv.magnitude + value]

\* SegmentedValue::add
add(sv, segment_index, value) ==
    [magnitude |-> sv.magnitude + value,
     segments |-> MapInsert(sv.segments, segment_index,
                            (IF segment_index \in DOMAIN sv.segments
                             THEN sv.segments[segment_index] ELSE 0) + value)]

\* SegmentedValue::value_of_segment
value_of_segment(sv, segment_index) ==
    IF segment_index \in DOMAIN sv.segments
    THEN Some(sv.segments[segment_index]) ELSE None

\* SegmentedValue::has_values
has_values(sv) == Cardinality(DOMAIN sv.segments) > 0

\* SegmentedValue::height
height(sv) == sv.magnitude

\* the least element of a non-empty set of indices
Least(S) == CHOOSE x \in S : \A y \in S : x <= y

\* BTreeMap::iter: the (key, value) pairs in ascending key order
RECURSIVE BTreeIterFrom(_, _)
BTreeIterFrom(m, todo) ==
    IF todo = {} THEN <<>>
    ELSE LET k == Least(todo)
         IN  <<[index |-> k, value |-> m[k]]>> \o BTreeIterFrom(m, todo \ {k})

BTreeIter(m) == BTreeIterFrom(m, DOMAIN m)

\* SegmentedValue::values
segment_values(sv) == BTreeIter(sv.segments)

----------------------------------------------------------------------------
(* CategorisedValue<CAT, SEG, VAL>: categorised_value.rs *)

CategorisedValue(c, s, v) == [category_key |-> c, segment_key |-> s, value |-> v]

\* what add_data accepts: anything that is Into<CategorisedValue>
Definitions ==
    [form : {"category"}, category : CatKeys]
    \cup [form : {"pair"}, category : CatKeys, value : Vals]
    \cup [form : {"triple"}, category : CatKeys, segment : SegKeys, value : {2}]

\* a conversion that gives a bare category key the value 0
into_without_count(def) ==
    CASE def.form = "category" -> CategorisedValue(def.category, 0, 0)
      [] def.form = "pair" -> CategorisedValue(def.category, 0, def.value)
      [] def.form = "triple" ->
            CategorisedValue(def.category, def.segment, def.value)

\* impl From<CAT>, From<(CAT, VAL)>, From<(CAT, SEG, VAL)>
Into(def) ==
    CASE def.form = "category" -> CategorisedValue(def.category, 0, 1)
      [] def.form = "pair" -> CategorisedValue(def.category, 0, def.value)
      [] def.form = "triple" ->
            CategorisedValue(def.category, def.segment, def.value)

----------------------------------------------------------------------------
(* CategorisedValues<CAT, SEG, VAL>: categorised_values.rs.  The struct is *)
(* the record [category_keys, segment_keys, values].                       *)

CategorisedValuesNew ==
    [category_keys |-> OrderedSetNew, segment_keys |-> OrderedSetNew,
     values |-> EmptyMap]

\* the loop "for key in keys { set.define_if_not_exist(&key) }"
RECURSIVE DefineAll(_, _)
DefineAll(os, keys) ==
    IF keys = <<>> THEN os
    ELSE DefineAll(define_if_not_exist(os, Head(keys)).set, Tail(keys))

\* a with_categories that keeps the keys defined so far
with_categories_no_clear(cv, keys) ==
    [cv EXCEPT !.category_keys = DefineAll(cv.category_keys, keys)]

\* a with_categories that also reserves an empty value for every key
with_categories_reserving(cv, keys) ==
    LET defined == DefineAll(clear(cv.category_keys), keys)
    IN  [cv EXCEPT !.category_keys = defined,
                   !.values = [i \in DOMAIN cv.values \cup (0..(Len(defined.list) - 1))
                                 |-> IF i \in DOMAIN cv.values THEN cv.values[i]
                                     ELSE SegmentedValueDefault]]

\* CategorisedValues::with_categories
with_categories(cv, keys) ==
    [cv EXCEPT !.category_keys = DefineAll(clear(cv.category_keys), keys)]

\* CategorisedValues::with_segments
with_segments(cv, keys) ==
    [cv EXCEPT !.segment_keys = DefineAll(clear(cv.segment_keys), keys)]

\* an add_to_category that replaces the category's SegmentedValue
add_to_category_replace(cv, bar_index, stack_index, value) ==
    [cv EXCEPT !.values =
        MapInsert(cv.values, bar_index,
                  add(SegmentedValueDefault, stack_index, value))]

\* an add_to_category that credits every value to segment index 0
add_to_category_one_segment(cv, bar_index, stack_index, value) ==
    [cv EXCEPT !.values =
        MapInsert(cv.values, bar_index,
                  add(IF bar_index \in DOMAIN cv.values
                      THEN cv.values[bar_index] ELSE SegmentedValueDefault,
                      0, value))]

\* CategorisedValues::add_to_category
add_to_category(cv, bar_index, stack_index, value) ==
    [cv EXCEPT !.values =
        MapInsert(cv.values, bar_index,
                  add(IF bar_index \in DOMAIN cv.values
                      THEN cv.values[bar_index] ELSE SegmentedValueDefault,
                      stack_index, value))]

\* one iteration of the loop of add_data; also reports the two indices
add_item(cv, def) ==
    LET bar_definition == Into(def)
        bar == define_if_not_exist(cv.category_keys, bar_definition.category_key)
        stack == define_if_not_exist(cv.segment_keys, bar_definition.segment_key)
        keyed == [cv EXCEPT !.category_keys = bar.set, !.segment_keys = stack.set]
    IN  [cv |-> add_to_category(keyed, bar.index, stack.index, bar_definition.value),
         bar_index |-> bar.index, stack_index |-> stack.index]

\* an add_data that starts every call from an empty aggregation
RECURSIVE add_data_restart_loop(_, _)
add_data_restart_loop(cv, collection) ==
    IF collection = <<>> THEN cv
    ELSE add_data_restart_loop(add_item(cv, Head(collection)).cv, Tail(collection))

add_data_restart(cv, collection) ==
    add_data_restart_loop([cv EXCEPT !.values = EmptyMap], collection)

\* CategorisedValues::add_data
RECURSIVE add_data(_, _)
add_data(cv, collection) ==
    IF collection = <<>> THEN cv
    ELSE add_data(add_item(cv, Head(collection)).cv, Tail(collection))

\* the (bar_index, stack_index) pairs add_data computes, item by item
RECURSIVE add_data_indices(_, _)
add_data_indices(cv, collection) ==
    IF collection = <<>> THEN <<>>
    ELSE LET step == add_item(cv, Head(collection))
         IN  <<[bar_index |-> step.bar_index, stack_index |-> step.stack_index]>>
             \o add_data_indices(step.cv, Tail(collection))

\* CategorisedValues::categories
categories(cv) == BTreeIter(cv.values)

\* the closure returned by CategorisedValues::category_index_to_label
category_index_to_label(cv, category_index) ==
    OrderedSetIndex(cv.category_keys, category_index)

\* the closure returned by CategorisedValues::segment_index_to_label
segment_index_to_label(cv, segment_index) ==
    OrderedSetIndex(cv.segment_keys, segment_index)

\* Display of an integer key or value; a CAT key is a string and displays
\* as itself
Display(x) == ToString(x)

\* the inner loop of Display::fmt: the segments of one category
RECURSIVE fmt_segments(_, _, _, _)
fmt_segments(cv, segs, values_only, write_seg_separator) ==
    IF segs = <<>> THEN [panic |-> FALSE, value |-> ""]
    ELSE LET seg_label == segment_index_to_label(cv, Head(segs).index)
             val == Head(segs).value
             rest == fmt_segments(cv, Tail(segs), values_only, TRUE)
         IN  IF seg_label.panic \/ rest.panic THEN [panic |-> TRUE]
             ELSE [panic |-> FALSE,
                   value |-> (IF write_seg_separator THEN ", " ELSE "")
                             \o (IF ~values_only
                                 THEN Display(seg_label.value) \o ": " ELSE "")
                             \o Display(val)
                             \o rest.value]

\* the outer loop of Display::fmt: one line per category
RECURSIVE fmt_categories(_, _, _, _, _)
fmt_categories(cv, cats, index, last_index, values_only) ==
    IF cats = <<>> THEN [panic |-> FALSE, value |-> ""]
    ELSE LET cat_label == category_index_to_label(cv, Head(cats).index)
             cat == Head(cats).value
             body == fmt_segments(cv, segment_values(cat), values_only, FALSE)
             rest == fmt_categories(cv, Tail(cats), index + 1, last_index,
                                    values_only)
         IN  IF cat_label.panic \/ body.panic \/ rest.panic
             THEN [panic |-> TRUE]
             ELSE [panic |-> FALSE,
                   value |-> "\t" \o cat_label.value \o ": "
                             \o (IF ~values_only THEN "{ " ELSE "")
                             \o body.value
                             \o (IF ~values_only THEN " }" ELSE "")
                             \o (IF index < last_index THEN "," ELSE "")
                             \o "\n"
                             \o rest.value]

\* impl Display for CategorisedValues
fmt(cv) ==
    LET categories_count == Len(categories(cv))
        is_empty == categories_count < 1
    IN  IF is_empty THEN [panic |-> FALSE, value |-> "{}"]
        ELSE LET values_only == len(cv.segment_keys) < 2
                 last_index == categories_count - 1
                 lines == fmt_categories(cv, categories(cv), 0, last_index,
                                         values_only)
             IN  IF lines.panic THEN [panic |-> TRUE]
                 ELSE [panic |-> FALSE,
                       value |-> "{\n" \o lines.value \o " }"]

\* CategorisedValues::to_string
to_string(cv) == fmt(cv)

\* the CategorisedValues value held in the state
this == [category_keys |-> category_keys, segment_keys |-> segment_keys,
         values |-> values]

----------------------------------------------------------------------------
(* BarLabel and BarGroup: bar_label.rs, bar_group.rs.  A BarGroup is the   *)
(* record [label, margin_before, margin_after, margin_between, children],  *)
(* children being [kind |-> "SubGroups" or "Labels", items |-> the Vec].   *)

\* impl From<usize> for BarLabel
BarLabel(k) == [key |-> k, label |-> ToString(k)]

SubGroups(groups) == [kind |-> "SubGroups", items |-> groups]
Labels(items) == [kind |-> "Labels", items |-> items]

BarGroupDefault ==
    [label |-> "", margin_before |-> 0, margin_after |-> 0,
     margin_between |-> 0, children |-> SubGroups(<<>>)]

BarGroupNew(label) == [BarGroupDefault EXCEPT !.label = label]

with_margin_before(g, b) == [g EXCEPT !.margin_before = b]
with_margin_after(g, a) == [g EXCEPT !.margin_after = a]
with_margin_between(g, b) == [g EXCEPT !.margin_between = b]

with_margins(g, b, between, a) ==
    with_margin_after(with_margin_between(with_margin_before(g, b), between), a)

define_groups(g, groups) == [g EXCEPT !.children = SubGroups(groups)]
define_labels(g, items) == [g EXCEPT !.children = Labels(items)]

child_count(g) == Len(g.children.items)

\* BarGroupIterator: the immediate subgroups, none for a group of labels
groups(g) == IF g.children.kind = "SubGroups" THEN g.children.items ELSE <<>>

\* BarLabelIterator: the record of the struct's fields, a slice iterator
\* being the sequence of the elements it has not yet handed out.  A call
\* returns [iter, item]: the iterator afterwards and the Option returned.
BarLabelIteratorNew(g) ==
    [subgroups_iter |-> IF g.children.kind = "SubGroups"
                        THEN Some(g.children.items) ELSE None,
     subgroup_labels_iter |-> None,
     labels_iter |-> IF g.children.kind = "Labels"
                     THEN Some(g.children.items) ELSE None]

RECURSIVE label_next(_)
RECURSIVE label_next_group(_)
RECURSIVE label_next_subgroup_label(_)

\* BarLabelIterator::next_group
label_next_group(it) ==
    IF it.subgroups_iter # None
    THEN IF it.subgroups_iter.value # <<>>
         THEN label_next_subgroup_label(
                [it EXCEPT
                   !.subgroups_iter = Some(Tail(it.subgroups_iter.value)),
                   !.subgroup_labels_iter =
                       Some(BarLabelIteratorNew(Head(it.subgroups_iter.value)))])
         ELSE [iter |-> it, item |-> None]
    ELSE [iter |-> it, item |-> None]

\* a next_subgroup_label that stops at the first subgroup that runs out
label_next_subgroup_label_stop(it) ==
    IF it.subgroup_labels_iter # None
    THEN LET r == label_next(it.subgroup_labels_iter.value)
         IN  IF r.item # None
             THEN [iter |-> [it EXCEPT !.subgroup_labels_iter = Some(r.iter)],
                   item |-> r.item]
             ELSE [iter |-> [it EXCEPT !.subgroup_labels_iter = None],
                   item |-> None]
    ELSE [iter |-> it, item |-> None]

\* BarLabelIterator::next_subgroup_label
label_next_subgroup_label(it) ==
    IF it.subgroup_labels_iter # None
    THEN LET r == label_next(it.subgroup_labels_iter.value)
         IN  IF r.item # None
             THEN [iter |-> [it EXCEPT !.subgroup_labels_iter = Some(r.iter)],
                   item |-> r.item]
             ELSE label_next_group([it EXCEPT !.subgroup_labels_iter = None])
    ELSE [iter |-> it, item |-> None]

\* impl Iterator for BarLabelIterator
label_next(it) ==
    IF it.labels_iter # None
    THEN IF it.labels_iter.value # <<>>
         THEN [iter |-> [it EXCEPT !.labels_iter = Some(Tail(it.labels_iter.value))],
               item |-> Some(Head(it.labels_iter.value))]
         ELSE [iter |-> it, item |-> None]
    ELSE IF it.subgroup_labels_iter # None THEN label_next_subgroup_label(it)
    ELSE IF it.subgroups_iter # None THEN label_next_group(it)
    ELSE [iter |-> it, item |-> None]

\* the items an iterator yields until its first None
RECURSIVE collect_labels(_)
collect_labels(it) ==
    LET r == label_next(it)
    IN  IF r.item = None THEN <<>> ELSE <<r.item.value>> \o collect_labels(r.iter)

\* BarGroup::labels, iterated to the end
labels(g) == collect_labels(BarLabelIteratorNew(g))

\* the labels of a sequence of groups, group after group
RECURSIVE labels_of_groups(_)
labels_of_groups(gs) ==
    IF gs = <<>> THEN <<>> ELSE labels(Head(gs)) \o labels_of_groups(Tail(gs))

\* the sum is built left to right: child_count() - 1, the product, the
\* two additions
margin_total(g) ==
    CAdd(CAdd(Checked(g.margin_before),
              CMul(Checked(g.margin_between),
                   CMax(CSub(Checked(child_count(g)), Checked(1)), Checked(0)))),
         Checked(g.margin_after))

RECURSIVE width_for_bar_width(_, _)
RECURSIVE fold_widths(_, _, _)
\* a width_for_bar_width in which an internal node counts its margins twice
width_margins_twice(g, bar_width) ==
    IF g.children.kind = "SubGroups"
    THEN CAdd(CAdd(margin_total(g), margin_total(g)),
              fold_widths(Checked(0), g.children.items, bar_width))
    ELSE CAdd(margin_total(g), CMul(Checked(child_count(g)), Checked(bar_width)))

width_for_bar_width(g, bar_width) ==
    CAdd(margin_total(g),
         IF g.children.kind = "SubGroups"
         THEN fold_widths(Checked(0), g.children.items, bar_width)
         ELSE CMul(Checked(child_count(g)), Checked(bar_width)))

\* subgroups.iter().fold(0, |width, subgroup| width + ...)
fold_widths(width, gs, bar_width) ==
    IF gs = <<>> THEN width
    ELSE fold_widths(CAdd(width, width_for_bar_width(Head(gs), bar_width)),
                     Tail(gs), bar_width)

\* self.groups().fold(self.margin_total(), |dimension, sg| dimension + ...)
RECURSIVE fold_margins(_, _)
fold_margins(dimension, gs) ==
    IF gs = <<>> THEN dimension
    ELSE fold_margins(CAdd(dimension, margin_total(Head(gs))), Tail(gs))

calculate_bar_width(g, dimension) ==
    LET margin_dimension == fold_margins(margin_total(g), groups(g))
        number_of_labels == Len(labels(g))
        numerator == CSub(Checked(dimension), margin_dimension)
    IN  [v |-> F32DivFloorAsUsize(AsF32(numerator.v), number_of_labels),
         o |-> numerator.o]

----------------------------------------------------------------------------
(* BarPositionIterator: bar_group.rs.  The iterator is the record of the   *)
(* struct's fields; a slice iterator is the sequence of the elements it    *)
(* has not yet handed out.  A call returns [iter, item, o]: the iterator   *)
(* afterwards, the Option it returned and whether an addition overflowed.  *)

BarPosition(k, position_start, position_end) ==
    [key |-> k, position_start |-> position_start, position_end |-> position_end]

BarPositionIteratorNew(g, position, bar_width, margin_between_, margin_after_) ==
    [subgroups_iter |-> IF g.children.kind = "SubGroups"
                        THEN Some(g.children.items) ELSE None,
     subgroup_label_dimensions_iter |-> None,
     labels_iter |-> IF g.children.kind = "Labels"
                     THEN Some(g.children.items) ELSE None,
     position |-> position,
     bar_width |-> bar_width,
     margin_between |-> margin_between_,
     margin_after |-> margin_after_]

RECURSIVE next(_)
RECURSIVE next_group(_)
RECURSIVE next_subgroup_label(_)

next_group(it) ==
    IF it.subgroups_iter # None
    THEN IF it.subgroups_iter.value # <<>>
         THEN LET g == Head(it.subgroups_iter.value)
                  position == CAdd(Checked(it.position), Checked(g.margin_before))
                  r == next_subgroup_label(
                         [it EXCEPT
                            !.subgroups_iter = Some(Tail(it.subgroups_iter.value)),
                            !.subgroup_label_dimensions_iter =
                                Some(BarPositionIteratorNew(g, position.v,
                                        it.bar_width, g.margin_between,
                                        g.margin_after))])
              IN  [r EXCEPT !.o = r.o \/ position.o]
         ELSE IF it.subgroup_label_dimensions_iter # None
              THEN LET sub == it.subgroup_label_dimensions_iter.value
                       position == CAdd(Checked(sub.position), Checked(sub.margin_after))
                   IN  [iter |-> [it EXCEPT !.position = position.v],
                        item |-> None, o |-> position.o]
              ELSE [iter |-> it, item |-> None, o |-> FALSE]
    ELSE [iter |-> it, item |-> None, o |-> FALSE]

\* a next_subgroup_label that stops at the first subgroup that runs out
next_subgroup_label_stop(it) ==
    IF it.subgroup_label_dimensions_iter # None
    THEN LET sub == next(it.subgroup_label_dimensions_iter.value)
         IN  IF sub.item # None
             THEN [iter |-> [it EXCEPT
                               !.subgroup_label_dimensions_iter = Some(sub.iter),
                               !.position = WAdd(sub.item.value.position_end, 1)],
                   item |-> sub.item, o |-> sub.o]
             ELSE [iter |-> [it EXCEPT !.subgroup_label_dimensions_iter = None],
                   item |-> None, o |-> sub.o]
    ELSE [iter |-> it, item |-> None, o |-> FALSE]

next_subgroup_label(it) ==
    IF it.subgroup_label_dimensions_iter # None
    THEN LET sub == next(it.subgroup_label_dimensions_iter.value)
         IN  IF sub.item # None
             THEN LET position == CAdd(Checked(sub.item.value.position_end), Checked(1))
                  IN  [iter |-> [it EXCEPT
                                   !.subgroup_label_dimensions_iter = Some(sub.iter),
                                   !.position = position.v],
                       item |-> sub.item,
                       o |-> sub.o \/ position.o]
             ELSE LET position == CAdd(Checked(it.position),
                                       CAdd(Checked(sub.iter.margin_after),
                                            Checked(it.margin_between)))
                      r == next_group([it EXCEPT
                                         !.position = position.v,
                                         !.subgroup_label_dimensions_iter = None])
                  IN  [r EXCEPT !.o = r.o \/ sub.o \/ position.o]
    ELSE [iter |-> it, item |-> None, o |-> FALSE]

next(it) ==
    IF it.labels_iter # None
    THEN IF it.labels_iter.value # <<>>
         THEN LET label == Head(it.labels_iter.value)
                  position_end == CSub(CAdd(Checked(it.position), Checked(it.bar_width)),
                                       Checked(1))
                  position == CAdd(Checked(it.position),
                                   CAdd(Checked(it.bar_width), Checked(it.margin_between)))
              IN  [iter |-> [it EXCEPT !.labels_iter = Some(Tail(it.labels_iter.value)),
                                       !.position = position.v],
                   item |-> Some(BarPosition(label.key, it.position, position_end.v)),
                   o |-> position_end.o \/ position.o]
         ELSE LET position == CAdd(Checked(it.position), Checked(it.margin_after))
              IN  [iter |-> [it EXCEPT !.position = position.v],
                   item |-> None, o |-> position.o]
    ELSE IF it.subgroup_label_dimensions_iter # None THEN next_subgroup_label(it)
    ELSE IF it.subgroups_iter # None THEN next_group(it)
    ELSE [iter |-> it, item |-> None, o |-> FALSE]

\* bar_positions up to the iterator it returns: [iter, o]
bar_positions(g, dimension) ==
    LET bar_width == calculate_bar_width(g, dimension)
        position == CAdd(Checked(1), Checked(g.margin_before))
    IN  [iter |-> BarPositionIteratorNew(g, position.v, bar_width.v,
                                         g.margin_between, g.margin_after),
         o |-> bar_width.o \/ position.o]

----------------------------------------------------------------------------
(* i64 (type Discrete).  A value is held relative to an anchor (i64::MIN, 0  *)
(* or i64::MAX) plus a small offset d, so that the arithmetic at both ends   *)
(* of the range keeps the type's width: min + d (d >= 0), d, max + d         *)
(* (d <= 0).  The offsets explored are far smaller than the distance         *)
(* between two anchors.                                                       *)

I64(a, d) == [a |-> a, d |-> d]
I64Zero(n) == I64("zero", n)
I64FromMax(n) == I64("max", n)

AnchorRank(a) == CASE a = "min" -> 0 [] a = "zero" -> 1 [] a = "max" -> 2

I64Lt(x, y) ==
    \/ AnchorRank(x.a) < AnchorRank(y.a)
    \/ x.a = y.a /\ x.d < y.d
I64Le(x, y) == x = y \/ I64Lt(x, y)

\* x + n for a small n: the wrapped result and whether it overflowed
I64AddSmall(x, n) ==
    CASE x.a = "zero" -> [v |-> I64("zero", x.d + n), o |-> FALSE]
      [] x.a = "max" ->
            IF x.d + n > 0 THEN [v |-> I64("min", x.d + n - 1), o |-> TRUE]
            ELSE [v |-> I64("max", x.d + n), o |-> FALSE]
      [] x.a = "min" ->
            IF x.d + n < 0 THEN [v |-> I64("max", x.d + n + 1), o |-> TRUE]
            ELSE [v |-> I64("min", x.d + n), o |-> FALSE]

\* x + y where one of the two is near 0
I64Add(x, y) == IF y.a = "zero" THEN I64AddSmall(x, y.d) ELSE I64AddSmall(y, x.d)

\* x - y where y is near 0 or both are near the same anchor
I64Sub(x, y) ==
    IF x.a = y.a THEN [v |-> I64("zero", x.d - y.d), o |-> FALSE]
    ELSE I64AddSmall(x, 0 - y.d)

----------------------------------------------------------------------------
(* LinearScaleIter<DR> with DR = i64: scales/linear_scale_iter.rs *)

\* LinearScaleIter::new
LinearScaleIterNew(start, end, step) ==
    LET zero == I64Zero(0)
        is_reversed == I64Lt(step, zero)
    IN  [start |-> start, end |-> end, step |-> step,
         is_reversed |-> is_reversed, current |-> None]

\* impl Iterator for LinearScaleIter: the iterator afterwards, the item
\* returned, and whether current + step overflowed
linear_next(it) ==
    LET sum == IF it.current.some THEN I64Add(it.current.value, it.step)
               ELSE [v |-> it.start, o |-> FALSE]
        current ==
            IF \/ it.is_reversed /\ I64Le(it.end, sum.v)
               \/ ~it.is_reversed /\ I64Le(sum.v, it.end)
            THEN Some(sum.v) ELSE None
    IN  [iter |-> [it EXCEPT !.current = current], item |-> current, o |-> sum.o]

----------------------------------------------------------------------------
(* DiscreteScale: scales/discrete_scale.rs.  Dimension is u16. *)

U16 == 65536

\* DiscreteScale::new: the scale, whether end + 1 or end - start overflowed,
\* and whether a division by zero panicked
DiscreteScaleNew(dimension, start, raw_end) ==
    LET bumped == IF start = raw_end THEN I64AddSmall(raw_end, 1)
                  ELSE [v |-> raw_end, o |-> FALSE]
        end == IF I64Le(start, raw_end) THEN bumped.v ELSE raw_end
        min == IF I64Le(start, raw_end) THEN start ELSE end
        max == IF I64Le(start, raw_end) THEN end ELSE start
        size == I64Sub(end, start)
        dim_64 == dimension
        wide == I64Lt(I64Zero(dim_64), size.v)
        zero_divisor == IF wide THEN dim_64 = 0 ELSE size.v.d % U16 = 0
        step == IF wide THEN size.v.d \div dim_64 ELSE 1
        units_per_step == IF wide THEN 1 ELSE (dim_64 % U16) \div (size.v.d % U16)
    IN  IF zero_divisor
        THEN [panic |-> TRUE, o |-> (I64Le(start, raw_end) /\ bumped.o) \/ size.o]
        ELSE [panic |-> FALSE,
              o |-> (I64Le(start, raw_end) /\ bumped.o) \/ size.o,
              scale |-> [offset |-> 0, start |-> start, end |-> end,
                         min |-> min, max |-> max, step |-> I64Zero(step),
                         units_per_step |-> units_per_step]]

\* DiscreteScale::offset
offset(ds, n) == [ds EXCEPT !.offset = n]

\* DiscreteScale::with_step
with_step(ds, step) ==
    LET zero == I64Zero(0)
    IN  [ds EXCEPT !.step = IF step = zero THEN I64Zero(1) ELSE step]

\* impl IterableScale<Discrete> for DiscreteScale: iter
DiscreteScaleIter(ds) == LinearScaleIterNew(ds.start, ds.end, ds.step)

----------------------------------------------------------------------------
(* Initial states *)

InitOrderedSet ==
    /\ set = OrderedSetNew
    /\ returned = [op |-> "new"]
    /\ before = OrderedSetNew
    /\ history = <<>>

InitCategorised ==
    /\ category_keys = OrderedSetNew
    /\ segment_keys = OrderedSetNew
    /\ values = EmptyMap
    /\ data = <<>>
    /\ placed = <<>>
    /\ predefined_categories = [called |-> FALSE]
    /\ predefined_segments = [called |-> FALSE]
    /\ orderings = 0

InitBarGroup ==
    /\ group = BarGroupNew("group")
    /\ pool = <<>>
    /\ profile = "any"
    /\ outcome = [op |-> "new"]
    /\ iterator = [live |-> FALSE]

InitLinearScale ==
    /\ scale = [made |-> FALSE]
    /\ scale_iter = [live |-> FALSE]
    /\ returns = <<>>
    /\ build = "any"
    /\ aborted = FALSE

InitSegmented ==
    /\ segmented = SegmentedValueDefault
    /\ segmented_before = SegmentedValueDefault
    /\ added = <<>>

Init ==
    /\ InitOrderedSet /\ InitCategorised /\ InitBarGroup
    /\ InitLinearScale /\ InitSegmented

----------------------------------------------------------------------------
(* Operations on the OrderedSet under test *)

DefineIfNotExist(k) ==
    /\ Len(history) < MaxDefines
    /\ LET r == define_if_not_exist(set, k)
       IN  /\ set' = r.set
           /\ returned' = [op |-> "define_if_not_exist", key |-> k, index |-> r.index]
    /\ before' = set
    /\ history' = Append(history, k)
    /\ UNCHANGED <<cvVars, bgVars, lsVars, svVars>>

Clear ==
    /\ set' = clear(set)
    /\ returned' = [op |-> "clear"]
    /\ before' = set
    /\ history' = <<>>
    /\ UNCHANGED <<cvVars, bgVars, lsVars, svVars>>

NextOrderedSet == (\E k \in Keys : DefineIfNotExist(k)) \/ Clear

SpecOrderedSet == Init /\ [][NextOrderedSet]_vars

----------------------------------------------------------------------------
(* Operations on the CategorisedValues builder *)

WithCategories(keys) ==
    /\ LET cv == with_categories(this, keys)
       IN  /\ category_keys' = cv.category_keys
           /\ segment_keys' = cv.segment_keys
           /\ values' = cv.values
    /\ predefined_categories' = IF data = <<>>
                                THEN [called |-> TRUE, first |-> TRUE, keys |-> keys]
                                ELSE [called |-> TRUE, first |-> FALSE]
    /\ orderings < MaxOrderings
    /\ orderings' = orderings + 1
    /\ UNCHANGED <<data, placed, predefined_segments>>
    /\ UNCHANGED <<osVars, bgVars, lsVars, svVars>>

WithSegments(keys) ==
    /\ LET cv == with_segments(this, keys)
       IN  /\ category_keys' = cv.category_keys
           /\ segment_keys' = cv.segment_keys
           /\ values' = cv.values
    /\ predefined_segments' = IF data = <<>>
                              THEN [called |-> TRUE, first |-> TRUE, keys |-> keys]
                              ELSE [called |-> TRUE, first |-> FALSE]
    /\ orderings < MaxOrderings
    /\ orderings' = orderings + 1
    /\ UNCHANGED <<data, placed, predefined_categories>>
    /\ UNCHANGED <<osVars, bgVars, lsVars, svVars>>

AddData(collection) ==
    /\ Len(data) + Len(collection) <= MaxItems
    /\ LET cv == add_data(this, collection)
       IN  /\ category_keys' = cv.category_keys
           /\ segment_keys' = cv.segment_keys
           /\ values' = cv.values
    /\ data' = data \o [i \in 1..Len(collection) |-> Into(collection[i])]
    /\ placed' = placed \o add_data_indices(this, collection)
    /\ UNCHANGED <<predefined_categories, predefined_segments, orderings>>
    /\ UNCHANGED <<osVars, bgVars, lsVars, svVars>>

NextCategorised ==
    \/ \E keys \in ShortSeqs(CatKeys) : WithCategories(keys)
    \/ \E keys \in ShortSeqs(SegKeys) : WithSegments(keys)
    \/ \E collection \in ShortSeqs(Definitions) : AddData(collection)

SpecCategorised == Init /\ [][NextCategorised]_vars

\* (first..first+n-1).map(|y| y.into()).collect::<Vec<BarLabel>>()
LabelsFrom(first, n) == [i \in 1..n |-> BarLabel(first + i - 1)]

\* the fixture of unit_tests.rs
sixties_and_seventies ==
    LET labels_60 == LabelsFrom(1967, 3)
        labels_70 == LabelsFrom(1970, 5)
    IN  with_margins(
            define_groups(
                BarGroupNew("years"),
                <<define_labels(with_margins(BarGroupNew("sixties"), 2, 3, 4),
                                labels_60),
                  with_margins(define_labels(BarGroupNew("seventies"), labels_70),
                               8, 9, 10)>>),
            5, 6, 7)

----------------------------------------------------------------------------
(* Operations on a SegmentedValue *)

SegmentIndices == {0, 1, 2}

Add(segment_index, value) ==
    /\ Len(added) < MaxAdds
    /\ segmented' = add(segmented, segment_index, value)
    /\ segmented_before' = segmented
    /\ added' = Append(added, <<segment_index, value>>)
    /\ UNCHANGED <<osVars, cvVars, bgVars, lsVars>>

NextSegmented ==
    \E segment_index \in SegmentIndices, value \in Vals : Add(segment_index, value)

SpecSegmented == Init /\ [][NextSegmented]_vars

----------------------------------------------------------------------------
(* Operations on a DiscreteScale and the LinearScaleIter it hands out *)

\* the arguments of DiscreteScale::new that are explored
ScaleChoices ==
    {<<800, I64Zero(0), I64Zero(100)>>,
     <<100, I64Zero(-300), I64Zero(500)>>,
     <<4, I64Zero(0), I64Zero(9)>>,
     <<10, I64Zero(3), I64Zero(3)>>,
     <<10, I64Zero(5), I64Zero(0)>>,
     <<0, I64Zero(0), I64Zero(5)>>,
     <<10, I64FromMax(-4), I64FromMax(-2)>>,
     <<10, I64FromMax(-1), I64FromMax(0)>>}
StepChoices == {I64Zero(0), I64Zero(3)}
OffsetChoices == {400}

\* the builds an i64 overflow leaves possible
Builds(o) ==
    IF o /\ build = "any" THEN {"debug", "release"} ELSE {build}

NewScale(dimension, start, raw_end) ==
    /\ ~scale.made /\ ~aborted
    /\ LET r == DiscreteScaleNew(dimension, start, raw_end)
       IN  \E b \in Builds(r.o) :
             /\ build' = b
             /\ aborted' = (r.panic \/ (r.o /\ b = "debug"))
             /\ scale' = IF r.panic \/ (r.o /\ b = "debug") THEN scale
                         ELSE [made |-> TRUE, stepped |-> FALSE, ds |-> r.scale]
    /\ UNCHANGED <<scale_iter, returns>>
    /\ UNCHANGED <<osVars, cvVars, bgVars, svVars>>

Offset(n) ==
    /\ scale.made /\ ~scale_iter.live
    /\ scale.ds.offset # n
    /\ scale' = [scale EXCEPT !.ds = offset(scale.ds, n)]
    /\ UNCHANGED <<scale_iter, returns, build, aborted>>
    /\ UNCHANGED <<osVars, cvVars, bgVars, svVars>>

WithStep(step) ==
    /\ scale.made /\ ~scale_iter.live
    /\ ~scale.stepped
    /\ scale' = [scale EXCEPT !.ds = with_step(scale.ds, step), !.stepped = TRUE]
    /\ UNCHANGED <<scale_iter, returns, build, aborted>>
    /\ UNCHANGED <<osVars, cvVars, bgVars, svVars>>

Iter ==
    /\ scale.made /\ ~scale_iter.live
    /\ scale_iter' = [live |-> TRUE, it |-> DiscreteScaleIter(scale.ds)]
    /\ UNCHANGED <<scale, returns, build, aborted>>
    /\ UNCHANGED <<osVars, cvVars, bgVars, svVars>>

LinearNext ==
    /\ scale_iter.live /\ ~aborted
    /\ Len(returns) < MaxCalls
    /\ LET r == linear_next(scale_iter.it)
       IN  \E b \in Builds(r.o) :
             /\ build' = b
             /\ aborted' = (r.o /\ b = "debug")
             /\ scale_iter' = IF r.o /\ b = "debug" THEN scale_iter
                              ELSE [scale_iter EXCEPT !.it = r.iter]
             /\ returns' = IF r.o /\ b = "debug" THEN returns
                           ELSE Append(returns, r.item)
    /\ UNCHANGED scale
    /\ UNCHANGED <<osVars, cvVars, bgVars, svVars>>

NextLinearScale ==
    \/ \E c \in ScaleChoices : NewScale(c[1], c[2], c[3])
    \/ \E n \in OffsetChoices : Offset(n)
    \/ \E step \in StepChoices : WithStep(step)
    \/ Iter
    \/ LinearNext

SpecLinearScale == Init /\ [][NextLinearScale]_vars

----------------------------------------------------------------------------
(* Building a BarGroup tree and querying its layout.  The builder methods  *)
(* consume and return the group; a finished group waits in pool until an   *)
(* enclosing group takes it with define_groups.  The queries borrow the    *)
(* finished tree and leave it as it is, so one query is explored per tree: *)
(* a usize-valued call, or bar_positions and the next calls on the         *)
(* iterator it returns.  A call that overflows settles the build profile;  *)
(* a panic ends the program.                                               *)

RECURSIVE NodeCount(_)
RECURSIVE NodeCountAll(_)
NodeCount(g) == 1 + NodeCountAll(groups(g))
NodeCountAll(gs) ==
    IF gs = <<>> THEN 0 ELSE NodeCount(Head(gs)) + NodeCountAll(Tail(gs))

Building == outcome.op = "new"
Panicked == outcome.op # "new" /\ outcome.panic
Exhausted == outcome.op = "next" /\ ~outcome.panic /\ outcome.value = None

\* the outcomes of a call whose arithmetic overflowed (o) or did not
Profiles(o) ==
    IF ~o THEN {profile}
    ELSE IF profile = "any" THEN {"debug", "release"}
    ELSE {profile}

WithMargins(m) ==
    /\ Building
    /\ group' = with_margins(group, m[1], m[2], m[3])
    /\ UNCHANGED <<pool, profile, outcome, iterator>>
    /\ UNCHANGED <<osVars, cvVars, lsVars, svVars>>

DefineLabels(n) ==
    /\ Building
    /\ LET first == FirstKey + Len(labels_of_groups(pool))
       IN  group' = define_labels(group, [i \in 1..n |-> BarLabel(first + i - 1)])
    /\ UNCHANGED <<pool, profile, outcome, iterator>>
    /\ UNCHANGED <<osVars, cvVars, lsVars, svVars>>

\* define_groups with the last n finished groups
DefineGroups(n) ==
    /\ Building
    /\ n <= Len(pool)
    /\ group' = define_groups(group, SubSeq(pool, Len(pool) - n + 1, Len(pool)))
    /\ pool' = SubSeq(pool, 1, Len(pool) - n)
    /\ UNCHANGED <<profile, outcome, iterator>>
    /\ UNCHANGED <<osVars, cvVars, lsVars, svVars>>

\* the group is finished; BarGroup::new starts the next one
NewGroup ==
    /\ Building
    /\ <<group.margin_before, group.margin_between, group.margin_after>>
          \notin WideMargins
    /\ NodeCount(group) + NodeCountAll(pool) < MaxGroups
    /\ pool' = Append(pool, group)
    /\ group' = BarGroupNew("group")
    /\ UNCHANGED <<profile, outcome, iterator>>
    /\ UNCHANGED <<osVars, cvVars, lsVars, svVars>>

\* what a usize-valued call leaves behind: r is its checked result, p the
\* build profile
Answer(call, r, p) ==
    IF r.o /\ p = "debug"
    THEN call @@ [panic |-> TRUE]
    ELSE call @@ [panic |-> FALSE, value |-> r.v]

MarginTotal ==
    /\ Building
    /\ pool = <<>>
    /\ LET r == margin_total(group)
       IN  \E p \in Profiles(r.o) :
              /\ profile' = p
              /\ outcome' = Answer([op |-> "margin_total"], r, p)
    /\ UNCHANGED <<group, pool, iterator>>
    /\ UNCHANGED <<osVars, cvVars, lsVars, svVars>>

WidthForBarWidth(bar_width) ==
    /\ Building
    /\ pool = <<>>
    /\ LET r == width_for_bar_width(group, bar_width)
       IN  \E p \in Profiles(r.o) :
              /\ profile' = p
              /\ outcome' = Answer([op |-> "width_for_bar_width",
                                    bar_width |-> bar_width], r, p)
    /\ UNCHANGED <<group, pool, iterator>>
    /\ UNCHANGED <<osVars, cvVars, lsVars, svVars>>

CalculateBarWidth(dimension) ==
    /\ Building
    /\ pool = <<>>
    /\ LET r == calculate_bar_width(group, dimension)
       IN  \E p \in Profiles(r.o) :
              /\ profile' = p
              /\ outcome' = Answer([op |-> "calculate_bar_width",
                                    dimension |-> dimension], r, p)
    /\ UNCHANGED <<group, pool, iterator>>
    /\ UNCHANGED <<osVars, cvVars, lsVars, svVars>>

\* labels(), iterated to the end
CollectLabels ==
    /\ Building
    /\ pool = <<>>
    /\ outcome' = [op |-> "labels", panic |-> FALSE, value |-> labels(group)]
    /\ UNCHANGED <<group, pool, profile, iterator>>
    /\ UNCHANGED <<osVars, cvVars, lsVars, svVars>>

BarPositions(dimension) ==
    /\ Building
    /\ pool = <<>>
    /\ LET r == bar_positions(group, dimension)
       IN  \E p \in Profiles(r.o) :
              /\ profile' = p
              /\ outcome' = [op |-> "bar_positions", dimension |-> dimension,
                             panic |-> r.o /\ p = "debug"]
              /\ iterator' = IF r.o /\ p = "debug" THEN iterator
                             ELSE [live |-> TRUE, dimension |-> dimension,
                                   it |-> r.iter, emitted |-> <<>>]
    /\ UNCHANGED <<group, pool>>
    /\ UNCHANGED <<osVars, cvVars, lsVars, svVars>>

\* Iterator::next on the iterator bar_positions returned
IteratorNext ==
    /\ iterator.live
    /\ ~Panicked
    /\ ~Exhausted
    /\ LET r == next(iterator.it)
       IN  \E p \in Profiles(r.o) :
              /\ profile' = p
              /\ IF r.o /\ p = "debug"
                 THEN /\ outcome' = [op |-> "next", panic |-> TRUE]
                      /\ UNCHANGED iterator
                 ELSE /\ outcome' = [op |-> "next", panic |-> FALSE, value |-> r.item]
                      /\ iterator' =
                           [iterator EXCEPT
                              !.it = r.iter,
                              !.emitted = IF r.item = None THEN @
                                          ELSE Append(@, r.item.value)]
    /\ UNCHANGED <<group, pool>>
    /\ UNCHANGED <<osVars, cvVars, lsVars, svVars>>

NextBarGroup ==
    \/ \E m \in MarginChoices \cup WideMargins : WithMargins(m)
    \/ \E n \in LabelCounts : DefineLabels(n)
    \/ \E n \in 0..MaxGroups : DefineGroups(n)
    \/ NewGroup
    \/ MarginTotal
    \/ \E bar_width \in BarWidths : WidthForBarWidth(bar_width)
    \/ \E dimension \in Dimensions : CalculateBarWidth(dimension)
    \/ CollectLabels
    \/ \E dimension \in Dimensions : BarPositions(dimension)
    \/ IteratorNext

SpecBarGroup == Init /\ [][NextBarGroup]_vars

----------------------------------------------------------------------------
(* Reference notions the properties are stated with *)

\* the distinct elements of s in order of first occurrence
RECURSIVE FirstOccurrences(_)
FirstOccurrences(s) ==
    IF s = <<>> THEN <<>>
    ELSE LET front == SubSeq(s, 1, Len(s) - 1)
             last == s[Len(s)]
         IN  IF last \in Range(front) THEN FirstOccurrences(front)
             ELSE Append(FirstOccurrences(front), last)

\* first-occurrence rank of k in s: how many distinct keys come before it
FirstOccurrenceRank(k, s) ==
    LET first == CHOOSE i \in 1..Len(s) : s[i] = k /\ \A j \in 1..(i - 1) : s[j] # k
    IN  Cardinality({s[j] : j \in 1..(first - 1)})

----------------------------------------------------------------------------
(* Properties of the OrderedSet (SpecOrderedSet) *)

\* C6: each distinct key passed to define_if_not_exist holds exactly one
\* index, its first-occurrence rank; the call returns that index; a call
\* with a key that is already present returns the same index and changes
\* neither len() nor the index of any key; iter() yields the keys in index
\* order.
C6_FirstOccurrenceRank ==
    /\ len(set) = Cardinality(Range(history))
    /\ \A k \in Range(history) :
            index_of(set, k) = Some(FirstOccurrenceRank(k, history))
    /\ iter(set) = FirstOccurrences(history)
    /\ \A i \in 1..Len(iter(set)) : index_of(set, iter(set)[i]) = Some(i - 1)
    /\ returned.op = "define_if_not_exist" =>
            /\ returned.index = FirstOccurrenceRank(returned.key, history)
            /\ returned.key \in DOMAIN before.map =>
                    /\ returned.index = before.map[returned.key]
                    /\ len(set) = len(before)
                    /\ \A k \in Keys : index_of(set, k) = index_of(before, k)

\* a key is defined a second time after another key was defined
C6_Witness ==
    /\ returned.op = "define_if_not_exist"
    /\ returned.key \in DOMAIN before.map
    /\ len(set) >= 2
    /\ returned.index = 0

\* C7: index_of and key are mutually inverse on exactly the current
\* contents: key(i) is Some iff i < len(), also for usize::MAX and on the
\* empty set; index_of(k) is Some iff k was defined since the last clear;
\* the hash index and the list hold the same number of entries.
C7_IndexKeyInverse ==
    /\ Cardinality(DOMAIN set.map) = Len(set.list)
    /\ \A i \in (0..(MaxDefines + 1)) \cup {USIZE_MAX} :
            key(set, i).some <=> (0 <= i /\ i < len(set))
    /\ \A k \in Keys : index_of(set, k).some <=> k \in Range(history)
    /\ \A k \in Range(history) : key(set, index_of(set, k).value) = Some(k)
    /\ \A i \in 0..(len(set) - 1) : index_of(set, key(set, i).value) = Some(i)

\* a set that held several keys has just been cleared
C7_Witness ==
    /\ returned.op = "clear"
    /\ len(before) >= 2
    /\ key(set, 0) = None
    /\ \A k \in Keys : index_of(set, k) = None

----------------------------------------------------------------------------
(* Properties of CategorisedValues (SpecCategorised) *)

CategoryOf(items) == [i \in 1..Len(items) |-> items[i].category_key]
SegmentOf(items) == [i \in 1..Len(items) |-> items[i].segment_key]

\* what category_index_to_label / segment_index_to_label make of an
\* iteration: the sequence of resolved labels
CategoryLabels ==
    [i \in 1..Len(categories(this)) |->
        category_index_to_label(this, categories(this)[i].index)]

\* C1: every category index that is a key of the aggregated values map is a
\* valid index of the category OrderedSet, so category_index_to_label
\* resolves every pair yielded by categories().
C1_CategoryIndexValid ==
    /\ \A i \in DOMAIN values : ULt(i, len(category_keys))
    /\ \A i \in 1..Len(CategoryLabels) : ~CategoryLabels[i].panic

\* C9: with_categories after add_data does not disturb what was aggregated:
\* every category index already present still resolves to the category key
\* under which its data was added.
C9_IndicesKeepTheirKey ==
    \A n \in 1..Len(data) :
        /\ placed[n].bar_index \in DOMAIN values
        /\ category_index_to_label(this, placed[n].bar_index)
              = [panic |-> FALSE, value |-> data[n].category_key]

\* the labels of the segments of one category, in values() order
SegmentLabels(sv) ==
    [i \in 1..Len(segment_values(sv)) |->
        segment_index_to_label(this, segment_values(sv)[i].index)]

Resolved(ls) == [i \in 1..Len(ls) |-> [panic |-> FALSE, value |-> ls[i]]]

\* the sum of the values of the items that satisfy a condition
RECURSIVE SumOfValues(_, _, _)
SumOfValues(items, cats, segs) ==
    IF items = <<>> THEN 0
    ELSE (IF Head(items).category_key \in cats /\ Head(items).segment_key \in segs
          THEN Head(items).value ELSE 0)
         + SumOfValues(Tail(items), cats, segs)

\* C8: when with_categories (with_segments) comes before any data, the
\* supplied keys hold the indices 0, 1, 2, ... in the given order, a
\* duplicate keeping its first position, and every key first seen in later
\* add_data calls holds the next free index in encounter order; categories()
\* and values() iterate in predefined order followed by first-seen order.
C8_PredefinedThenFirstSeen ==
    /\ (predefined_categories.called /\ predefined_categories.first) =>
          LET keys == predefined_categories.keys
              order == FirstOccurrences(keys \o CategoryOf(data))
              HasData(c) == c \in Range(CategoryOf(data))
          IN  /\ iter(category_keys) = order
              /\ \A k \in Range(keys) :
                    index_of(category_keys, k) = Some(FirstOccurrenceRank(k, keys))
              /\ CategoryLabels = Resolved(SelectSeq(order, HasData))
    /\ (predefined_segments.called /\ predefined_segments.first) =>
          LET keys == predefined_segments.keys
              order == FirstOccurrences(keys \o SegmentOf(data))
          IN  /\ iter(segment_keys) = order
              /\ \A k \in Range(keys) :
                    index_of(segment_keys, k) = Some(FirstOccurrenceRank(k, keys))
              /\ (~predefined_categories.called \/ predefined_categories.first) =>
                    \A c \in CatKeys :
                        index_of(category_keys, c).some
                        /\ index_of(category_keys, c).value \in DOMAIN values =>
                            LET sv == values[index_of(category_keys, c).value]
                                HasData(g) ==
                                    \E n \in 1..Len(data) :
                                        /\ data[n].category_key = c
                                        /\ data[n].segment_key = g
                            IN  SegmentLabels(sv) = Resolved(SelectSeq(order, HasData))

\* both orders were predefined, against the order of the data, with a
\* duplicate, and a key outside the predefined block followed
C8_Witness ==
    /\ predefined_categories = [called |-> TRUE, first |-> TRUE, keys |-> <<"B", "B">>]
    /\ predefined_segments = [called |-> TRUE, first |-> TRUE, keys |-> <<1, 0>>]
    /\ CategoryOf(data) = <<"A", "B">>
    /\ SegmentOf(data) = <<0, 1>>
    /\ CategoryLabels = Resolved(<<"B", "A">>)

\* C10: with no predefined category order, categories() yields the
\* categories in first-seen order of their keys in the input, each with the
\* total of its values.
C10_FirstSeenOrder ==
    ~predefined_categories.called =>
        /\ CategoryLabels = Resolved(FirstOccurrences(CategoryOf(data)))
        /\ \A i \in 1..Len(CategoryLabels) :
              height(categories(this)[i].value)
                = SumOfValues(data, {CategoryLabels[i].value}, SegKeys)

\* B came before A in the input
C10_Witness ==
    /\ ~predefined_categories.called
    /\ CategoryOf(data) = <<"B", "A">>
    /\ CategoryLabels = Resolved(<<"B", "A">>)
    /\ height(categories(this)[1].value) = 2


\* The configuration came first: no with_categories or with_segments call
\* followed any data (builder-style configuration, then ingestion).
Configured ==
    /\ predefined_categories.called => predefined_categories.first
    /\ predefined_segments.called => predefined_segments.first

\* the input items whose keys are (c, s)
Occurs(c, s) ==
    \E n \in 1..Len(data) : data[n].category_key = c /\ data[n].segment_key = s

\* the bucket stored for the keys (c, s), None when there is none
Bucket(c, s) ==
    LET ci == index_of(category_keys, c)
        si == index_of(segment_keys, s)
    IN  IF ci = None \/ si = None THEN None
        ELSE IF ci.value \notin DOMAIN values THEN None
        ELSE value_of_segment(values[ci.value], si.value)

\* C11: after add_data over a sequence of (category, segment, value)
\* triples, the bucket of segment s under category c holds the sum of the
\* values of exactly the triples with keys (c, s); it is absent when there
\* is none, and no bucket exists for any other index.
C11_BucketsAreSums ==
    Configured =>
        /\ \A c \in CatKeys, s \in SegKeys :
              Bucket(c, s) = IF Occurs(c, s)
                             THEN Some(SumOfValues(data, {c}, {s})) ELSE None
        /\ \A i \in DOMAIN values :
              /\ key(category_keys, i) # None
              /\ \A j \in DOMAIN values[i].segments :
                    /\ key(segment_keys, j) # None
                    /\ Occurs(key(category_keys, i).value, key(segment_keys, j).value)

\* two triples met in one bucket, another pair of keys has none
C11_Witness ==
    /\ Configured
    /\ Len(data) = 2
    /\ data[1].category_key = "B" /\ data[1].segment_key = 1
    /\ data[2] = data[1]
    /\ Bucket("B", 1) = Some(4)
    /\ Bucket("B", 0) = None
    /\ Bucket("A", 1) = None

\* the builder as the configuration left it, before any data
Base ==
    [category_keys |-> IF predefined_categories.called
                       THEN with_categories(CategorisedValuesNew,
                                            predefined_categories.keys).category_keys
                       ELSE OrderedSetNew,
     segment_keys |-> IF predefined_segments.called
                      THEN with_segments(CategorisedValuesNew,
                                         predefined_segments.keys).segment_keys
                      ELSE OrderedSetNew,
     values |-> EmptyMap]

\* items as a collection add_data accepts
AsTriples(items) ==
    [n \in 1..Len(items) |->
        [form |-> "triple", category |-> items[n].category_key,
         segment |-> items[n].segment_key, value |-> items[n].value]]

\* C12: add_data accumulates: add_data(xs) followed by add_data(ys) leaves
\* the aggregation (both index sets, every bucket, every height) as one
\* add_data over xs ++ ys does, for every way to cut the input in two, and
\* that is the aggregation the calls made so far have built.
C12_AddDataAccumulates ==
    Configured =>
        \A k \in 0..Len(data) :
            LET xs == AsTriples(SubSeq(data, 1, k))
                ys == AsTriples(SubSeq(data, k + 1, Len(data)))
            IN  /\ add_data(add_data(Base, xs), ys) = add_data(Base, xs \o ys)
                /\ this = add_data(Base, xs \o ys)

\* two items for one category: its height is the sum of both
C12_Witness ==
    /\ Configured
    /\ Len(data) = 2
    /\ data[1].category_key = "A" /\ data[2].category_key = "A"
    /\ data[1].segment_key # data[2].segment_key
    /\ height(values[index_of(category_keys, "A").value])
         = data[1].value + data[2].value
    /\ this = add_data(add_data(Base, AsTriples(<<data[1]>>)), AsTriples(<<data[2]>>))

\* the values add was called with on the SegmentedValue of category index i
RECURSIVE SumPlaced(_, _, _)
SumPlaced(items, indices, i) ==
    IF items = <<>> THEN 0
    ELSE (IF Head(indices).bar_index = i THEN Head(items).value ELSE 0)
         + SumPlaced(Tail(items), Tail(indices), i)

\* C13: after any sequence of add(segment_index, value) calls on a
\* SegmentedValue, height() is the sum of all the values passed to add,
\* whatever segments they went to.
C13_HeightIsSum ==
    \A i \in DOMAIN values : height(values[i]) = SumPlaced(data, placed, i)

\* one SegmentedValue took two adds, to two different segments
C13_Witness ==
    \E i \in DOMAIN values :
        /\ Len(data) = 2
        /\ placed[1].bar_index = i /\ placed[2].bar_index = i
        /\ placed[1].stack_index # placed[2].stack_index
        /\ height(values[i]) = 4

\* C14: a bare category key is normalised to segment key 0 and value 1, so
\* when every item given was a bare key the height of a category is the
\* number of occurrences of its key and each category holds one segment.
C14_HistogramCounts ==
    /\ \A c \in CatKeys :
          Into([form |-> "category", category |-> c]) = CategorisedValue(c, 0, 1)
    /\ (Configured
         /\ \A n \in 1..Len(data) : data[n].segment_key = 0 /\ data[n].value = 1)
        => /\ \A c \in CatKeys :
                 LET occurrences == Cardinality({n \in 1..Len(data) :
                                                   data[n].category_key = c})
                     ci == index_of(category_keys, c)
                 IN  IF occurrences = 0
                     THEN ci = None \/ ci.value \notin DOMAIN values
                     ELSE /\ ci # None
                          /\ ci.value \in DOMAIN values
                          /\ height(values[ci.value]) = occurrences
           /\ \A i \in DOMAIN values : Cardinality(DOMAIN values[i].segments) = 1

\* the key A was given twice
C14_Witness ==
    /\ Configured
    /\ data = <<CategorisedValue("A", 0, 1), CategorisedValue("A", 0, 1)>>
    /\ height(values[index_of(category_keys, "A").value]) = 2
    /\ Cardinality(DOMAIN values[index_of(category_keys, "A").value].segments) = 1

----------------------------------------------------------------------------
(* Properties of the BarGroup layout (SpecBarGroup) *)

\* the margin total as the specification writes it, in unbounded integers
MarginSum(g) ==
    g.margin_before
      + g.margin_between * (IF child_count(g) >= 1 THEN child_count(g) - 1 ELSE 0)
      + g.margin_after

RECURSIVE SumOver(_, _)
SumOver(F(_), gs) == IF gs = <<>> THEN 0 ELSE F(Head(gs)) + SumOver(F, Tail(gs))

\* The sums written in unbounded integers below are taken over trees whose
\* margins are a few pixels and for dimensions in the lower half of usize.
RECURSIVE SmallMargins(_)
SmallMargins(g) ==
    /\ {g.margin_before, g.margin_between, g.margin_after} \subseteq 0..3
    /\ \A i \in 1..Len(groups(g)) : SmallMargins(groups(g)[i])

SmallSizes(dimension) == dimension >= 0 /\ SmallMargins(group)

\* the margins of a whole tree
RECURSIVE TreeMargins(_)
TreeMargins(g) == MarginSum(g) + SumOver(TreeMargins, groups(g))

\* every group of the tree has a child
RECURSIVE Populated(_)
Populated(g) ==
    /\ child_count(g) >= 1
    /\ \A i \in 1..Len(groups(g)) : Populated(groups(g)[i])

\* C5: margin_total() returns margin_before + margin_between *
\* max(child_count - 1, 0) + margin_after for every group; with no child or
\* one child that is margin_before + margin_after.
C5_MarginTotal ==
    (outcome.op = "margin_total" /\ SmallMargins(group)) =>
        /\ ~outcome.panic
        /\ outcome.value = MarginSum(group)
        /\ child_count(group) <= 1 =>
              outcome.value = group.margin_before + group.margin_after

\* C4: on a node with a leaf label in its subtree and dimension >= M,
\* calculate_bar_width(dimension) returns floor((dimension - M) / count),
\* M being the node's margin_total plus that of its immediate child groups
\* and count the number of leaf labels of the subtree.
C4_BarWidthIsFloor ==
    LET count == Len(labels(group))
        M == MarginSum(group) + SumOver(MarginSum, groups(group))
    IN  (/\ outcome.op = "calculate_bar_width"
         /\ SmallSizes(outcome.dimension)
         /\ count >= 1
         /\ outcome.dimension >= M)
        => /\ ~outcome.panic
           /\ outcome.value = (outcome.dimension - M) \div count

\* C2: for a tree of any depth with a leaf label and a dimension at least
\* the tree's margins, w = calculate_bar_width(dimension) gives
\* dimension - (count - 1) <= width_for_bar_width(w) <= dimension.  Stated
\* here for trees whose groups all have a child and for dimensions an f32
\* holds exactly.
C2_RoundTrip ==
    LET count == Len(labels(group))
    IN  (/\ outcome.op = "calculate_bar_width"
         /\ SmallSizes(outcome.dimension)
         /\ count >= 1
         /\ Populated(group)
         /\ outcome.dimension < F32_MANTISSA
         /\ outcome.dimension >= TreeMargins(group))
        => /\ ~outcome.panic
           /\ LET total == width_for_bar_width(group, outcome.value)
              IN  /\ ~total.o
                  /\ outcome.dimension - (count - 1) <= total.v
                  /\ total.v <= outcome.dimension

\* The cursor of the iterator of node g whose extent's first bar pixel is
\* start: before child i the cursor stands at start plus, for every earlier
\* child, that child's width_for_bar_width and the node's margin_between;
\* the iterator of child i starts margin_before further; a leaf iterator
\* stands one bar and one margin_between further per label handed out.
RECURSIVE CursorFollowsExtents(_, _, _)
CursorFollowsExtents(it, g, start) ==
    IF g.children.kind = "Labels"
    THEN LET handed == child_count(g) - Len(it.labels_iter.value)
             at == start + handed * (it.bar_width + g.margin_between)
         IN  it.position \in {at, at + g.margin_after}
    ELSE LET cs == g.children.items
             handed == Len(cs) - Len(it.subgroups_iter.value)
             Extent(c) == width_for_bar_width(c, it.bar_width).v + g.margin_between
             Before(i) == start + SumOver(Extent, SubSeq(cs, 1, i - 1))
         IN  IF it.subgroup_label_dimensions_iter # None
             THEN CursorFollowsExtents(it.subgroup_label_dimensions_iter.value,
                                       cs[handed],
                                       Before(handed) + cs[handed].margin_before)
             ELSE it.position = Before(handed + 1)

\* C3: in bar_positions, at every internal node and for every child group
\* c_i, the cursor advances by c_i.margin_before before descending into c_i
\* and, once c_i completes, stands past c_i's whole extent and the node's
\* margin_between, so that the next child's first leaf starts
\* c_i.width_for_bar_width(bar_width) + margin_between + its margin_before
\* after the pixel where c_i's extent began.  Stated here for trees whose
\* groups all have a child and dimensions that cover the margins.
C3_CursorAdvance ==
    (/\ iterator.live
     /\ SmallSizes(iterator.dimension)
     /\ Populated(group)
     /\ iterator.dimension < F32_MANTISSA
     /\ iterator.dimension >= TreeMargins(group))
    => CursorFollowsExtents(iterator.it, group, 1 + group.margin_before)

\* C15: a group of leaf labels queried with bar_positions(dimension) emits
\* its k-th label (k = 0, 1, ...) with the label's key, position_start =
\* 1 + margin_before + k * (w + margin_between) and position_end =
\* position_start + w - 1, for w = calculate_bar_width(dimension); the
\* sums are sums of unsigned integers, none of which wraps.
C15_LeafPositions ==
    (/\ outcome.op \in {"bar_positions", "next"}
     /\ group.children.kind = "Labels"
     /\ child_count(group) >= 1)
    => /\ ~outcome.panic
       /\ iterator.live
       /\ \A n \in 1..Len(iterator.emitted) :
             LET w == Checked(calculate_bar_width(group, iterator.dimension).v)
                 start == CAdd(CAdd(Checked(1), Checked(group.margin_before)),
                               CMul(Checked(n - 1),
                                    CAdd(w, Checked(group.margin_between))))
                 end == CSub(CAdd(start, w), Checked(1))
             IN  /\ ~end.o
                 /\ iterator.emitted[n]
                      = BarPosition(group.children.items[n].key, start.v, end.v)

KeysOf(items) == [n \in 1..Len(items) |-> items[n].key]

\* C16: where bar_positions(dimension) is defined (neither the call nor
\* the traversal panicked on an overflow), the iterator is finite and
\* yields exactly labels().count() items whose keys, in emission order,
\* are the keys of labels(); after the last item it returns None.
C16_PositionsFollowLabels ==
    (/\ iterator.live
     /\ outcome.op \in {"bar_positions", "next"}
     /\ ~outcome.panic)
    => LET expected == KeysOf(labels(group))
           yielded == KeysOf(iterator.emitted)
       IN  /\ Len(yielded) <= Len(expected)
           /\ yielded = SubSeq(expected, 1, Len(yielded))
           /\ Exhausted => yielded = expected
           /\ ~Exhausted =>
                 (next(iterator.it).item = None <=> yielded = expected)

\* a tree of two groups of labels was iterated to the end
C16_Witness ==
    /\ iterator.live
    /\ Exhausted
    /\ Len(groups(group)) = 2
    /\ KeysOf(iterator.emitted) = <<1967, 1968, 1969>>
    /\ KeysOf(labels(group)) = <<1967, 1968, 1969>>

\* every leaf label of a tree, depth first and left to right
RECURSIVE LeavesDepthFirst(_)
LeavesDepthFirst(g) ==
    IF g.children.kind = "Labels" THEN g.children.items
    ELSE LET Below[n \in 0..Len(g.children.items)] ==
                 IF n = 0 THEN <<>>
                 ELSE Below[n - 1] \o LeavesDepthFirst(g.children.items[n])
         IN  Below[Len(g.children.items)]

\* C17: labels() yields every leaf label of the subtree exactly once, depth
\* first and left to right, passes over child groups without labels
\* without losing the labels of later siblings, and terminates; it yields
\* nothing when the subtree has no label.
C17_LabelsDepthFirst ==
    /\ labels(group) = LeavesDepthFirst(group)
    /\ \A n \in 1..Len(pool) : labels(pool[n]) = LeavesDepthFirst(pool[n])
    /\ outcome.op = "labels" =>
          /\ outcome.value = LeavesDepthFirst(group)
          /\ \A a, b \in 1..Len(outcome.value) :
                outcome.value[a] = outcome.value[b] => a = b

\* the first child group has no labels, the second has two
C17_Witness ==
    /\ outcome.op = "labels"
    /\ Len(groups(group)) = 2
    /\ labels(groups(group)[1]) = <<>>
    /\ KeysOf(outcome.value) = <<1967, 1968>>

\* every group of a tree, the root first
RECURSIVE Nodes(_)
Nodes(g) ==
    LET Below[n \in 0..Len(groups(g))] ==
            IF n = 0 THEN <<>> ELSE Below[n - 1] \o Nodes(groups(g)[n])
    IN  <<g>> \o Below[Len(groups(g))]

\* every margin_total() of the tree once, and one bar per leaf label
FlatWidth(g, bar_width) ==
    LET ns == Nodes(g)
        Margins[n \in 0..Len(ns)] ==
            IF n = 0 THEN Checked(0) ELSE CAdd(Margins[n - 1], margin_total(ns[n]))
    IN  CAdd(Margins[Len(ns)],
             CMul(Checked(Len(LeavesDepthFirst(g))), Checked(bar_width)))

\* C18: width_for_bar_width(bar_width) is additive over the tree: a
\* leaf-parent gives margin_total() + child_count * bar_width, an internal
\* node margin_total() plus the widths of its children, so the root total
\* counts the margin_total() of every node exactly once; where some
\* margin_total() does not return, neither does the width.  The fixture
\* gives 24, 74 and 116 for bar width 4.
C18_WidthIsAdditive ==
    /\ width_for_bar_width(groups(sixties_and_seventies)[1], 4) = Checked(24)
    /\ width_for_bar_width(groups(sixties_and_seventies)[2], 4) = Checked(74)
    /\ width_for_bar_width(sixties_and_seventies, 4) = Checked(116)
    /\ outcome.op = "width_for_bar_width" =>
          LET flat == FlatWidth(group, outcome.bar_width)
          IN  /\ outcome.panic => flat.o
              /\ ~outcome.panic =>
                    /\ outcome.value = flat.v
                    /\ group.children.kind = "Labels" =>
                          outcome.value
                            = WAdd(margin_total(group).v,
                                   WMul(child_count(group), outcome.bar_width))

\* a root with margins over two groups of labels with margins
C18_Witness ==
    /\ outcome = [op |-> "width_for_bar_width", bar_width |-> 4,
                   panic |-> FALSE, value |-> 28]
    /\ Len(groups(group)) = 2
    /\ \A n \in 1..Len(Nodes(group)) : margin_total(Nodes(group)[n]) = Checked(4 + 2 * (Len(Nodes(group)[n].children.items) - 1))

\* the group and its immediate child groups all have a child, so that
\* the margins calculate_bar_width adds up are defined
MarginsDefined(g) ==
    /\ child_count(g) >= 1
    /\ \A n \in 1..Len(groups(g)) : child_count(groups(g)[n]) >= 1

\* C19: on a tree without any leaf label calculate_bar_width produces an
\* error or the bar width 0, never a value derived from a NaN or infinite
\* quotient, never a huge or wrapped-around width.
C19_NoLabelsNoWidth ==
    (/\ outcome.op = "calculate_bar_width"
     /\ MarginsDefined(group)
     /\ Len(labels(group)) = 0)
    => (outcome.panic \/ outcome.value = 0)

\* C20: calculate_bar_width(dimension) with a dimension smaller than the
\* margins it subtracts signals an invalid layout; it does not return a
\* width computed from the wrapped difference.
C20_NarrowDimensionSignalled ==
    (/\ outcome.op = "calculate_bar_width"
     /\ SmallSizes(outcome.dimension)
     /\ MarginsDefined(group)
     /\ outcome.dimension < MarginSum(group) + SumOver(MarginSum, groups(group)))
    => outcome.panic

\* C25: for a tree with at least one label and a dimension for which
\* calculate_bar_width(dimension) >= 1, every span emitted by
\* bar_positions(dimension) lies inside the target range: every
\* position_end is <= dimension.
C25_SpansInsideDimension ==
    (/\ iterator.live
     /\ Len(labels(group)) >= 1
     /\ calculate_bar_width(group, iterator.dimension).v # 0)
    => \A n \in 1..Len(iterator.emitted) :
          ~ULt(iterator.dimension, iterator.emitted[n].position_end)

\* C26: the spans emitted by one bar_positions traversal never overlap and
\* keep their order: the first position_start is >= 1 and each later
\* position_start is strictly greater than the position_end before it, for
\* every tree shape, margin assignment and bar width, 0 included.
C26_SpansDisjoint ==
    iterator.live
    => /\ Len(iterator.emitted) >= 1 =>
             ~ULt(iterator.emitted[1].position_start, 1)
       /\ \A n \in 2..Len(iterator.emitted) :
             ULt(iterator.emitted[n - 1].position_end,
                 iterator.emitted[n].position_start)

----------------------------------------------------------------------------
(* Textual rendering and iteration of CategorisedValues (SpecCategorised) *)

\* the category key and the segment key that own an index
CategoryAt(i) == category_keys.list[i + 1]
SegmentAt(i) == segment_keys.list[i + 1]

\* a list of pieces joined by commas, none after the last
RECURSIVE Joined(_, _)
Joined(pieces, separator) ==
    IF pieces = <<>> THEN ""
    ELSE IF Len(pieces) = 1 THEN Head(pieces)
    ELSE Head(pieces) \o separator \o Joined(Tail(pieces), separator)

\* the body of one category as the rendering is described
RenderedBody(sv) ==
    IF len(segment_keys) < 2 THEN ToString(height(sv))
    ELSE "{ "
         \o Joined([j \in 1..Len(segment_values(sv)) |->
                       ToString(SegmentAt(segment_values(sv)[j].index)) \o ": "
                       \o ToString(segment_values(sv)[j].value)], ", ")
         \o " }"

\* the whole text as the rendering is described
Rendered ==
    IF DOMAIN values = {} THEN "{}"
    ELSE "{\n"
         \o Joined([i \in 1..Len(categories(this)) |->
                       "\t" \o CategoryAt(categories(this)[i].index) \o ": "
                       \o RenderedBody(categories(this)[i].value)], ",\n")
         \o "\n }"

\* C21: in every state reachable through with_categories, with_segments
\* and add_data the text is "{}" iff no category holds data; otherwise each
\* category body is the bare total when fewer than 2 segment keys are
\* defined and a braced list of segment: value pairs in ascending segment
\* index otherwise, entries separated by commas with none after the last.
C21_Rendering ==
    /\ ~to_string(this).panic
    /\ to_string(this).value = "{}" <=> DOMAIN values = {}
    /\ to_string(this).value = Rendered

\* the indices categories() yields, in order
YieldedIndices == [i \in 1..Len(categories(this)) |-> categories(this)[i].index]

\* C22: categories() yields pairs in strictly ascending category index and
\* exactly the categories that received at least one data item: a category
\* that was only predefined and never occurred in the data is not yielded,
\* and every yielded SegmentedValue has has_values() = true.
C22_CategoriesWithData ==
    /\ \A i, j \in 1..Len(YieldedIndices) :
          i < j => YieldedIndices[i] < YieldedIndices[j]
    /\ Range(YieldedIndices) = {placed[n].bar_index : n \in 1..Len(placed)}
    /\ \A i \in 1..Len(categories(this)) : has_values(categories(this)[i].value)
    /\ Configured =>
          \A c \in CatKeys :
             (/\ index_of(category_keys, c) # None
              /\ index_of(category_keys, c).value \in Range(YieldedIndices))
             <=> (\E n \in 1..Len(data) : data[n].category_key = c)

\* "A" and "B" were predefined, only "B" received data
C22_Witness ==
    /\ predefined_categories = [called |-> TRUE, first |-> TRUE, keys |-> <<"A", "B">>]
    /\ CategoryOf(data) = <<"B">>
    /\ YieldedIndices = <<1>>
    /\ index_of(category_keys, "A") = Some(0)

\* C27: after any sequence of with_categories, with_segments and add_data,
\* every segment index stored as a bucket key of some category is a valid
\* index of the segment OrderedSet, so segment_index_to_label and the
\* textual rendering resolve every (segment index, value) pair.
C27_SegmentIndexValid ==
    \A i \in 1..Len(categories(this)) :
        LET cat == categories(this)[i].value
        IN  /\ \A j \in 1..Len(segment_values(cat)) :
                  ULt(segment_values(cat)[j].index, len(segment_keys))
            /\ \A j \in 1..Len(SegmentLabels(cat)) : ~SegmentLabels(cat)[j].panic
            /\ ~fmt_segments(this, segment_values(cat), len(segment_keys) < 2,
                             FALSE).panic

----------------------------------------------------------------------------
(* Properties of LinearScaleIter (SpecLinearScale) *)

\* C23: an integer LinearScaleIter made by DiscreteScale::iter with
\* start <= end and step > 0 yields exactly the values start + k * step
\* that are <= end, in increasing order, then returns None: it ends after
\* floor((end - start) / step) + 1 items.
C23_ScaleIterYields ==
    (/\ scale_iter.live
     /\ I64Le(scale_iter.it.start, scale_iter.it.end)
     /\ I64Lt(I64Zero(0), scale_iter.it.step))
    => LET it == scale_iter.it
           count == ((it.end.d - it.start.d) \div it.step.d) + 1
       IN  /\ ~aborted
           /\ \A k \in 1..Len(returns) :
                 /\ k <= count =>
                       returns[k] = Some(I64(it.start.a, it.start.d + (k - 1) * it.step.d))
                 /\ k = count + 1 => returns[k] = None

----------------------------------------------------------------------------
(* Properties of SegmentedValue (SpecSegmented) *)

\* the sum of the values of a sequence of (index, value) pairs
RECURSIVE SumOfPairs(_)
SumOfPairs(pairs) ==
    IF pairs = <<>> THEN 0 ELSE Head(pairs).value + SumOfPairs(Tail(pairs))

\* C24: add(segment_index, value) creates the bucket at zero if absent,
\* increases that bucket and the magnitude by value and leaves every other
\* bucket unchanged; so the buckets returned by values() always sum to
\* height(), and value_of_segment(i) is None exactly for the indices never
\* passed to add.
C24_AddFrame ==
    /\ added # <<>> =>
          LET segment_index == added[Len(added)][1]
              value == added[Len(added)][2]
              old == value_of_segment(segmented_before, segment_index)
          IN  /\ value_of_segment(segmented, segment_index)
                    = Some((IF old = None THEN 0 ELSE old.value) + value)
              /\ height(segmented) = height(segmented_before) + value
              /\ \A i \in SegmentIndices \ {segment_index} :
                    value_of_segment(segmented, i)
                      = value_of_segment(segmented_before, i)
    /\ SumOfPairs(segment_values(segmented)) = height(segmented)
    /\ \A i \in SegmentIndices :
          value_of_segment(segmented, i) = None
            <=> ~\E n \in 1..Len(added) : added[n][1] = i

\* segment 1 was added to twice, segment 0 once, segment 2 never
C24_Witness ==
    /\ added = <<<<1, 2>>, <<0, 1>>, <<1, 1>>>>
    /\ segment_values(segmented)
          = <<[index |-> 0, value |-> 1], [index |-> 1, value |-> 3]>>
    /\ height(segmented) = 4
    /\ value_of_segment(segmented, 2) = None

====
